---- MODULE Spec2Model ----
(***************************************************************************)
(* FoodShare: the REST handlers of server/routes.ts over the relational    *)
(* storage of server/storage.ts (DatabaseStorage, the implementation the   *)
(* module exports as `storage`) and the tables of shared/schema.ts.        *)
(*                                                                         *)
(* A table is the set of its rows, a row a record of its columns.  A       *)
(* request body is a record holding whatever fields the client sent.  A    *)
(* handler that awaits two storage calls is two steps (check, apply) with  *)
(* the request kept in `inflight` in between, so that other requests can   *)
(* interleave exactly where the event loop lets them.                      *)
(***************************************************************************)
EXTENDS Integers, FiniteSets, Sequences, TLC

\* ---- bounds ----
NUsers == 3
MaxListings == 2
MaxMessages == 2
MaxStoredMessages == 3
MaxRows == 1
MaxTransactions == 2
MaxReviews == 1
MaxClock == 2
MaxInflight == 1

VARIABLES users, foodListings, messages, transactions, reviews,
          seq, now, inflight, resp, client

tables == <<users, foodListings, messages, transactions, reviews>>
vars == <<users, foodListings, messages, transactions, reviews,
          seq, now, inflight, resp, client>>

\* ---- values ----
Null == "null"
\* SQL NULL in a numeric column (price, latitude, longitude)
NullNumber == 0 - 1
Anon == 0
EmptyBody == [f \in {} |-> TRUE]
UserIds == 1..NUsers
Sessions == UserIds \cup {Anon}

\* ---- shared/schema.ts: columns of each table ----
UserColumns == {"id", "username", "password", "email", "bio"}
ListingColumns == {"id", "title", "price", "isFree", "expiresAt", "latitude",
                   "longitude", "userId", "isAvailable"}
MessageColumns == {"id", "senderId", "receiverId", "content", "isRead", "createdAt"}
TransactionColumns == {"id", "buyerId", "sellerId", "listingId", "status", "isPaid"}
ReviewColumns == {"id", "reviewerId", "receiverId", "listingId", "rating"}

\* ---- generic row helpers ----
\* { ...a, ...b }: b's fields win, a's other fields stay
Spread_first(a, b) ==
    [f \in DOMAIN a \cup DOMAIN b |-> IF f \in DOMAIN a THEN a[f] ELSE b[f]]
Spread(a, b) ==
    [f \in DOMAIN a \cup DOMAIN b |-> IF f \in DOMAIN b THEN b[f] ELSE a[f]]

\* zod object parse / pick: fields outside the schema are stripped
Strip(body, fields) == [f \in DOMAIN body \cap fields |-> body[f]]

\* ---- routes.ts: validateBody answers error.errors[0].message ----
\* zod reports a missing field as "Required", unless the schema names a
\* required_error for it (expiresAt of insertFoodListingSchema)
RequiredMessage(f) ==
    IF f = "expiresAt" THEN "Expiration date is required" ELSE "Required"

\* the violations of a body, in schema order
Violations(body, required) ==
    SelectSeq(required, LAMBDA f : f \notin DOMAIN body)

FirstViolation_last(body, required) ==
    Violations(body, required)[Len(Violations(body, required))]
FirstViolation(body, required) == Violations(body, required)[1]

ValidationError(body, required) ==
    {[message |-> RequiredMessage(FirstViolation(body, required))]}

\* the value a column gets on insert: the supplied one or the column default
ValueOr(values, f, default) == IF f \in DOMAIN values THEN values[f] ELSE default

\* db.update(t).set(data): the columns of the table named in data are assigned
SetRow(row, data) ==
    [f \in DOMAIN row |-> IF f \in DOMAIN data THEN data[f] ELSE row[f]]

TheRow(rows) == CHOOSE r \in rows : TRUE

\* ---- routes.ts: middleware ----
isAuthenticated_always(s) == s = s
isAuthenticated(s) == s # Anon

\* ---- the browser: what the pages of the client hold ----
\* location and hasSeenSplash are the router's path and the localStorage entry;
\* showSplash, progress, timer, interval belong to SplashPage and SplashScreen
\* (mounted is false until SplashPage's effects have run); elapsed and ticks
\* count the 50 ms periods passed and the interval callbacks run since the
\* timers were armed; user, selectedUserId, requested, invalidated and failed
\* belong to the messages page of the logged-in user
ClientInit ==
    client = [location |-> "none", hasSeenSplash |-> FALSE, showSplash |-> FALSE,
              mounted |-> FALSE, progress |-> 0, timer |-> FALSE,
              interval |-> FALSE, elapsed |-> 0, ticks |-> 0, completions |-> 0,
              user |-> 0, selectedUserId |-> 0, requested |-> {},
              invalidated |-> FALSE, failed |-> FALSE]

\* a handler of the server leaves the browser as it is
Reply(route, s, id, body, status, result) ==
    /\ resp' = [route |-> route, session |-> s, id |-> id, body |-> body,
                status |-> status, result |-> result]
    /\ client' = client

\* ---- storage.ts: DatabaseStorage, food listings ----
getFoodListing(id) == {l \in foodListings : l.id = id}

\* insert(...).values({...listing, isAvailable: true}).returning()
NewFoodListing(listing, id) ==
    LET v == Spread(listing, [isAvailable |-> TRUE]) IN
    [id |-> id,
     title |-> v.title,
     price |-> ValueOr(v, "price", NullNumber),
     isFree |-> ValueOr(v, "isFree", FALSE),
     expiresAt |-> v.expiresAt,
     latitude |-> ValueOr(v, "latitude", NullNumber),
     longitude |-> ValueOr(v, "longitude", NullNumber),
     userId |-> v.userId,
     isAvailable |-> ValueOr(v, "isAvailable", TRUE)]

\* update(...).set(listingData).where(id = id).returning(); the statement
\* fails when no column is assigned or when the primary key would collide
UpdateListingFails_never(id, data) == id # id
UpdateListingFails(id, data) ==
    \/ DOMAIN data \cap ListingColumns = {}
    \/ /\ "id" \in DOMAIN data
       /\ getFoodListing(id) # {}
       /\ data.id # id
       /\ getFoodListing(data.id) # {}

updateFoodListing(id, data) ==
    {SetRow(l, data) : l \in getFoodListing(id)}

ListingsAfterUpdate_all(id, data) == {SetRow(l, data) : l \in foodListings}
ListingsAfterUpdate(id, data) ==
    (foodListings \ getFoodListing(id)) \cup updateFoodListing(id, data)

deleteFoodListing(id) == foodListings \ getFoodListing(id)

\* delete(...).where(id = id).returning(); return result.length > 0
deleteFoodListingReturns_true(id) == id = id
deleteFoodListingReturns(id) == Cardinality(getFoodListing(id)) > 0

\* select().from(foodListings)
getAllFoodListings == foodListings

\* ---- lib/geolocation: calculateDistance, miles between two points ----
\* the great-circle distance at grid scale: 69 miles to the degree, rounded up
\* to the mile, so that distance <= radius is exact for whole radii
MilesPerDegree == 69

SqrtUp(n) == CHOOSE r \in 0..n : r * r >= n /\ (r = 0 \/ (r - 1) * (r - 1) < n)

calculateDistance(lat1, lon1, lat2, lon2) ==
    SqrtUp(MilesPerDegree * MilesPerDegree
             * ((lat1 - lat2) * (lat1 - lat2) + (lon1 - lon2) * (lon1 - lon2)))

\* !value of JavaScript on a nullable number: null and 0 are both falsy
Falsy(v) == v = NullNumber \/ v = 0

\* select().from(foodListings).where(isAvailable = true), then the filter
getFoodListingsByLocation(lat, lng, radiusMiles) ==
    {listing \in {l \in foodListings : l.isAvailable = TRUE} :
        /\ ~(Falsy(listing.latitude) \/ Falsy(listing.longitude))
        /\ calculateDistance(lat, lng, listing.latitude, listing.longitude)
              <= radiusMiles}

\* ---- storage.ts: MemStorage.getFoodListingsByLocation over the same rows ----
\* sqrt(latDiff^2 + lngDiff^2) * 69 <= radiusMiles && listing.isAvailable
MemGetFoodListingsByLocation(lat, lng, radiusMiles) ==
    {listing \in foodListings :
        /\ ~(Falsy(listing.latitude) \/ Falsy(listing.longitude))
        /\ MilesPerDegree * MilesPerDegree
              * ((listing.latitude - lat) * (listing.latitude - lat)
                 + (listing.longitude - lng) * (listing.longitude - lng))
              <= radiusMiles * radiusMiles
        /\ listing.isAvailable = TRUE}

\* ---- routes.ts: the query string of GET /api/food-listings ----
\* parseFloat of a parameter; a text that is no number gives NaN
Numbers == ("0" :> 0) @@ ("1" :> 1) @@ ("69" :> 69) @@ ("98" :> 98)
isNaN(text) == text \notin DOMAIN Numbers
parseFloat(text) == Numbers[text]

\* ---- shared/schema.ts: insertFoodListingSchema ----
InsertListingFields == {"title", "price", "isFree", "latitude", "longitude", "userId",
                        "expiresAt"}
\* the fields a body must hold, in the order the schema lists (and checks) them
ListingRequired == <<"title", "userId", "expiresAt">>
ValidListingBody(b) == {"title", "userId", "expiresAt"} \subseteq DOMAIN b

\* ---- routes.ts: ownership test of the listing mutations ----
OwnsListing_anyone(listing, s) == listing.userId = listing.userId
OwnsListing(listing, s) == listing.userId = s

GetListingsRoute == "GET /api/food-listings"
PostListingRoute == "POST /api/food-listings"
PutListingRoute == "PUT /api/food-listings/:id"
DeleteListingRoute == "DELETE /api/food-listings/:id"

\* ---- routes.ts: GET /api/food-listings ----
GetListings(query) ==
    /\ IF {"lat", "lng", "radius"} \subseteq DOMAIN query
       THEN IF isNaN(query.lat) \/ isNaN(query.lng) \/ isNaN(query.radius)
            THEN Reply(GetListingsRoute, Anon, 0, query, 400, {})
            ELSE Reply(GetListingsRoute, Anon, 0, query, 200,
                       getFoodListingsByLocation(parseFloat(query.lat),
                                                 parseFloat(query.lng),
                                                 parseFloat(query.radius)))
       ELSE Reply(GetListingsRoute, Anon, 0, query, 200, getAllFoodListings)
    /\ UNCHANGED <<tables, seq, now, inflight>>

\* ---- routes.ts: POST /api/food-listings ----
PostListing(s, body) ==
    /\ IF ~isAuthenticated(s)
       THEN /\ Reply(PostListingRoute, s, 0, body, 401, {})
            /\ UNCHANGED <<foodListings, seq>>
       ELSE IF ~ValidListingBody(body)
       THEN /\ Reply(PostListingRoute, s, 0, body, 400,
                     ValidationError(body, ListingRequired))
            /\ UNCHANGED <<foodListings, seq>>
       ELSE /\ seq.foodListings <= MaxListings
            /\ LET parsed == Strip(body, InsertListingFields)
                   row == NewFoodListing(Spread(parsed, [userId |-> s]),
                                         seq.foodListings)
               IN /\ foodListings' = foodListings \cup {row}
                  /\ Reply(PostListingRoute, s, 0, body, 201, {row})
            /\ seq' = [seq EXCEPT !.foodListings = @ + 1]
    /\ UNCHANGED <<users, messages, transactions, reviews, now, inflight>>

\* ---- FoodListingForm.onSubmit: the payload the create form sends ----
\* listingData = { ...data, images, userId: user.id };
\* if (listingData.isFree) listingData.price = 0
onSubmit(data, userId) ==
    LET listingData == Spread(data, [userId |-> userId])
    IN IF "isFree" \in DOMAIN listingData /\ listingData.isFree = TRUE
       THEN Spread(listingData, [price |-> 0])
       ELSE listingData

\* createListingMutation.mutate(listingData): POST /api/food-listings
SubmitListingForm(s, data) == PostListing(s, onSubmit(data, s))

\* ---- routes.ts: PUT /api/food-listings/:id, up to the ownership check ----
\* at most MaxInflight requests of one route wait for their storage call
PutListingCheck(s, id, body) ==
    /\ IF ~isAuthenticated(s)
       THEN Reply(PutListingRoute, s, id, body, 401, {}) /\ UNCHANGED inflight
       ELSE IF getFoodListing(id) = {}
       THEN Reply(PutListingRoute, s, id, body, 404, {}) /\ UNCHANGED inflight
       ELSE IF ~OwnsListing(TheRow(getFoodListing(id)), s)
       THEN Reply(PutListingRoute, s, id, body, 403, {}) /\ UNCHANGED inflight
       ELSE /\ Cardinality({r \in inflight : r.route = PutListingRoute}) < MaxInflight
            /\ inflight' = inflight \cup
                   {[route |-> PutListingRoute, session |-> s, id |-> id, body |-> body]}
            /\ Reply(PutListingRoute, s, id, body, 0, {})
    /\ UNCHANGED <<tables, seq, now>>

\* ---- routes.ts: PUT /api/food-listings/:id, the update and the response ----
PutListingApply(r) ==
    /\ r.route = PutListingRoute
    /\ inflight' = inflight \ {r}
    /\ IF UpdateListingFails(r.id, r.body)
       THEN /\ Reply(PutListingRoute, r.session, r.id, r.body, 500, {})
            /\ UNCHANGED foodListings
       ELSE /\ foodListings' = ListingsAfterUpdate(r.id, r.body)
            /\ Reply(PutListingRoute, r.session, r.id, r.body, 200,
                     updateFoodListing(r.id, r.body))
    /\ UNCHANGED <<users, messages, transactions, reviews, seq, now>>

\* ---- routes.ts: DELETE /api/food-listings/:id, up to the ownership check ----
DeleteListingCheck(s, id) ==
    /\ IF ~isAuthenticated(s)
       THEN Reply(DeleteListingRoute, s, id, EmptyBody, 401, {}) /\ UNCHANGED inflight
       ELSE IF getFoodListing(id) = {}
       THEN Reply(DeleteListingRoute, s, id, EmptyBody, 404, {}) /\ UNCHANGED inflight
       ELSE IF ~OwnsListing(TheRow(getFoodListing(id)), s)
       THEN Reply(DeleteListingRoute, s, id, EmptyBody, 403, {}) /\ UNCHANGED inflight
       ELSE /\ Cardinality({r \in inflight : r.route = DeleteListingRoute}) < MaxInflight
            /\ inflight' = inflight \cup
                   {[route |-> DeleteListingRoute, session |-> s, id |-> id,
                     body |-> EmptyBody]}
            /\ Reply(DeleteListingRoute, s, id, EmptyBody, 0, {})
    /\ UNCHANGED <<tables, seq, now>>

\* ---- routes.ts: DELETE /api/food-listings/:id, the delete and the response ----
DeleteListingApply(r) ==
    /\ r.route = DeleteListingRoute
    /\ inflight' = inflight \ {r}
    /\ foodListings' = deleteFoodListing(r.id)
    /\ Reply(DeleteListingRoute, r.session, r.id, r.body, 204, {})
    /\ UNCHANGED <<users, messages, transactions, reviews, seq, now>>

\* ---- storage.ts: DatabaseStorage, users ----
getUser(id) == {u \in users : u.id = id}

\* update(users).set(userData).where(id = id).returning(); the statement fails
\* when no column is assigned or a unique column (username, email) would repeat
UpdateUserFails(id, data) ==
    \/ DOMAIN data \cap UserColumns = {}
    \/ \E u \in getUser(id), o \in users :
          /\ o.id # u.id
          /\ \/ "username" \in DOMAIN data /\ data.username = o.username
             \/ "email" \in DOMAIN data /\ data.email = o.email

updateUser(id, data) == {SetRow(u, data) : u \in getUser(id)}

UsersAfterUpdate(id, data) == (users \ getUser(id)) \cup updateUser(id, data)

\* ---- routes.ts: const { password, ...rest } = user ----
WithoutPassword_keep(row) == row
WithoutPassword(row) == [f \in DOMAIN row \ {"password"} |-> row[f]]

\* ---- routes.ts: const { password, ...updatableFields } = req.body ----
UpdatableFields_all(body) == body
UpdatableFields(body) == [f \in DOMAIN body \ {"password"} |-> body[f]]

GetUserRoute == "GET /api/users/:id"
PutProfileRoute == "PUT /api/users/profile"

\* ---- routes.ts: GET /api/users/:id ----
GetUser(id) ==
    /\ IF getUser(id) = {}
       THEN Reply(GetUserRoute, Anon, id, EmptyBody, 404, {})
       ELSE Reply(GetUserRoute, Anon, id, EmptyBody, 200,
                  {WithoutPassword(u) : u \in getUser(id)})
    /\ UNCHANGED <<tables, seq, now, inflight>>

\* ---- routes.ts: PUT /api/users/profile ----
PutProfile(s, body) ==
    /\ IF ~isAuthenticated(s)
       THEN Reply(PutProfileRoute, s, 0, body, 401, {}) /\ UNCHANGED users
       ELSE IF UpdateUserFails(s, UpdatableFields(body))
       THEN Reply(PutProfileRoute, s, 0, body, 500, {}) /\ UNCHANGED users
       ELSE IF updateUser(s, UpdatableFields(body)) = {}
       THEN Reply(PutProfileRoute, s, 0, body, 404, {}) /\ UNCHANGED users
       ELSE /\ users' = UsersAfterUpdate(s, UpdatableFields(body))
            /\ Reply(PutProfileRoute, s, 0, body, 200,
                     {WithoutPassword(u) : u \in updateUser(s, UpdatableFields(body))})
    /\ UNCHANGED <<foodListings, messages, transactions, reviews, seq, now, inflight>>

\* ---- storage.ts: MemStorage.updateUser over a Map of users ----
\* const updatedUser = { ...user, ...userData }; this.users.set(id, updatedUser)
MemUpdateUser(id, userData) == {Spread(u, userData) : u \in getUser(id)}

MemUsersAfterUpdate(id, userData) ==
    (users \ getUser(id)) \cup MemUpdateUser(id, userData)

\* ---- routes.ts: PUT /api/users/profile, with MemStorage as the storage ----
MemPutProfile(s, body) ==
    /\ IF ~isAuthenticated(s)
       THEN Reply(PutProfileRoute, s, 0, body, 401, {}) /\ UNCHANGED users
       ELSE IF MemUpdateUser(s, UpdatableFields(body)) = {}
       THEN Reply(PutProfileRoute, s, 0, body, 404, {}) /\ UNCHANGED users
       ELSE /\ users' = MemUsersAfterUpdate(s, UpdatableFields(body))
            /\ Reply(PutProfileRoute, s, 0, body, 200,
                     {WithoutPassword(u) : u \in MemUpdateUser(s, UpdatableFields(body))})
    /\ UNCHANGED <<foodListings, messages, transactions, reviews, seq, now, inflight>>

\* ---- storage.ts: DatabaseStorage, messages ----
\* insert(messages).values({...message, isRead: false}); created_at defaults to now()
NewMessage_read(message, id, t) ==
    [id |-> id, senderId |-> message.senderId, receiverId |-> message.receiverId,
     content |-> message.content, isRead |-> TRUE, createdAt |-> t]
NewMessage(message, id, t) ==
    LET v == Spread(message, [isRead |-> FALSE]) IN
    [id |-> id, senderId |-> v.senderId, receiverId |-> v.receiverId,
     content |-> v.content, isRead |-> v.isRead, createdAt |-> t]

getMessagesByUser_sent(userId) == {m \in messages : m.senderId = userId}
getMessagesByUser(userId) ==
    {m \in messages : m.senderId = userId \/ m.receiverId = userId}

\* the WHERE clause of getConversation
InConversation_oneWay(m, user1Id, user2Id) ==
    m.senderId = user1Id /\ m.receiverId = user2Id
InConversation(m, user1Id, user2Id) ==
    \/ m.senderId = user1Id /\ m.receiverId = user2Id
    \/ m.senderId = user2Id /\ m.receiverId = user1Id

\* all the orders of a set of rows
Orders(rows) ==
    {q \in [1..Cardinality(rows) -> rows] :
        \A i, j \in 1..Cardinality(rows) : q[i] = q[j] => i = j}

\* ORDER BY created_at
OrderedByCreatedAt_any(q) == Len(q) >= 0
OrderedByCreatedAt(q) ==
    \A i, j \in 1..Len(q) : i < j => q[i].createdAt <= q[j].createdAt

\* select ... where ... order by created_at: rows with equal created_at come
\* in an order SQL leaves open, so the call has a set of possible results
getConversation(user1Id, user2Id) ==
    {q \in Orders({m \in messages : InConversation(m, user1Id, user2Id)}) :
        OrderedByCreatedAt(q)}

\* update(messages).set({isRead: true}).where(id = id).returning()
markMessageAsRead_toggle(id) ==
    {[m EXCEPT !.isRead = ~m.isRead] : m \in {x \in messages : x.id = id}}
markMessageAsRead(id) ==
    {[m EXCEPT !.isRead = TRUE] : m \in {x \in messages : x.id = id}}

MessagesAfterRead_onlyThat(id) == markMessageAsRead(id)
MessagesAfterRead(id) ==
    {m \in messages : m.id # id} \cup markMessageAsRead(id)

\* ---- storage.ts: MemStorage.markMessageAsRead over a Map of messages ----
\* message.isRead = true; this.messages.set(id, message); return true
MemMarkMessageAsRead(store, id) ==
    [found |-> \E m \in store : m.id = id,
     store |-> {IF m.id = id THEN [m EXCEPT !.isRead = TRUE] ELSE m : m \in store}]

\* ---- shared/schema.ts: insertMessageSchema ----
InsertMessageFields == {"senderId", "receiverId", "content"}
MessageRequired == <<"senderId", "receiverId", "content">>
ValidMessageBody(b) == InsertMessageFields \subseteq DOMAIN b

GetMessagesRoute == "GET /api/messages"
GetConversationRoute == "GET /api/messages/:userId"
PostMessageRoute == "POST /api/messages"
MarkReadRoute == "PUT /api/messages/:id/read"

\* ---- routes.ts: GET /api/messages ----
GetMessages(s) ==
    /\ IF ~isAuthenticated(s)
       THEN Reply(GetMessagesRoute, s, 0, EmptyBody, 401, {})
       ELSE Reply(GetMessagesRoute, s, 0, EmptyBody, 200, getMessagesByUser(s))
    /\ UNCHANGED <<tables, seq, now, inflight>>

\* ---- routes.ts: GET /api/messages/:userId ----
GetConversation(s, other) ==
    /\ IF ~isAuthenticated(s)
       THEN Reply(GetConversationRoute, s, other, EmptyBody, 401, <<>>)
       ELSE \E q \in getConversation(s, other) :
               Reply(GetConversationRoute, s, other, EmptyBody, 200, q)
    /\ UNCHANGED <<tables, seq, now, inflight>>

\* ---- routes.ts: POST /api/messages ----
PostMessage(s, body) ==
    /\ IF ~isAuthenticated(s)
       THEN /\ Reply(PostMessageRoute, s, 0, body, 401, {})
            /\ UNCHANGED <<messages, seq>>
       ELSE IF ~ValidMessageBody(body)
       THEN /\ Reply(PostMessageRoute, s, 0, body, 400,
                     ValidationError(body, MessageRequired))
            /\ UNCHANGED <<messages, seq>>
       ELSE /\ seq.messages <= MaxMessages
            /\ LET parsed == Strip(body, InsertMessageFields)
                   row == NewMessage(Spread(parsed, [senderId |-> s]),
                                     seq.messages, now)
               IN /\ messages' = messages \cup {row}
                  /\ Reply(PostMessageRoute, s, 0, body, 201, {row})
            /\ seq' = [seq EXCEPT !.messages = @ + 1]
    /\ UNCHANGED <<users, foodListings, transactions, reviews, now, inflight>>

\* ---- routes.ts: PUT /api/messages/:id/read ----
MarkRead(s, id) ==
    /\ IF ~isAuthenticated(s)
       THEN Reply(MarkReadRoute, s, id, EmptyBody, 401, {}) /\ UNCHANGED messages
       ELSE IF markMessageAsRead(id) = {}
       THEN Reply(MarkReadRoute, s, id, EmptyBody, 404, {}) /\ UNCHANGED messages
       ELSE /\ messages' = MessagesAfterRead(id)
            /\ Reply(MarkReadRoute, s, id, EmptyBody, 204, {})
    /\ UNCHANGED <<users, foodListings, transactions, reviews, seq, now, inflight>>

\* ---- storage.ts: MemStorage.getConversation over the same stored messages ----
\* Array.from(this.messages.values()): the Map yields its values in insertion
\* order, which is the order of the ids the counter handed out
RECURSIVE MapValues(_)
MapValues(rows) ==
    IF rows = {} THEN <<>>
    ELSE LET first == CHOOSE r \in rows : \A o \in rows : r.id <= o.id
         IN <<first>> \o MapValues(rows \ {first})

\* Array.prototype.sort with (a, b) => a.createdAt - b.createdAt is stable:
\* an element goes behind every earlier element that is not later than it
InsertByCreatedAt(q, m) ==
    LET k == Cardinality({i \in 1..Len(q) : q[i].createdAt <= m.createdAt})
    IN SubSeq(q, 1, k) \o <<m>> \o SubSeq(q, k + 1, Len(q))

RECURSIVE SortByCreatedAt(_)
SortByCreatedAt(q) ==
    IF q = <<>> THEN <<>>
    ELSE InsertByCreatedAt(SortByCreatedAt(SubSeq(q, 1, Len(q) - 1)), q[Len(q)])

MemGetConversation(user1Id, user2Id) ==
    LET Between(m) == InConversation(m, user1Id, user2Id)
    IN SortByCreatedAt(SelectSeq(MapValues(messages), Between))

\* ---- the database clock behind defaultNow() ----
Tick ==
    /\ now < MaxClock
    /\ now' = now + 1
    /\ Reply("clock", Anon, 0, EmptyBody, 0, {})
    /\ UNCHANGED <<tables, seq, inflight>>

\* ---- storage.ts: DatabaseStorage, transactions ----
getTransaction(id) == {t \in transactions : t.id = id}

getTransactionsByUser_buyer(userId) == {t \in transactions : t.buyerId = userId}
getTransactionsByUser(userId) ==
    {t \in transactions : t.buyerId = userId \/ t.sellerId = userId}

\* insert(transactions).values(transaction).returning()
NewTransaction(transaction, id) ==
    [id |-> id, buyerId |-> transaction.buyerId, sellerId |-> transaction.sellerId,
     listingId |-> transaction.listingId, status |-> transaction.status,
     isPaid |-> ValueOr(transaction, "isPaid", FALSE)]

UpdateTransactionFails(id, data) ==
    \/ DOMAIN data \cap TransactionColumns = {}
    \/ /\ "id" \in DOMAIN data
       /\ getTransaction(id) # {}
       /\ data.id # id
       /\ getTransaction(data.id) # {}

updateTransaction(id, data) == {SetRow(t, data) : t \in getTransaction(id)}

TransactionsAfterUpdate_onlyThat(id, data) == updateTransaction(id, data)
TransactionsAfterUpdate(id, data) ==
    (transactions \ getTransaction(id)) \cup updateTransaction(id, data)

\* ---- shared/schema.ts: insertTransactionSchema ----
InsertTransactionFields == {"buyerId", "sellerId", "listingId", "status", "isPaid"}
TransactionRequired == <<"buyerId", "sellerId", "listingId", "status">>
ValidTransactionBody(b) ==
    {"buyerId", "sellerId", "listingId", "status"} \subseteq DOMAIN b

\* ---- routes.ts: participant test of the transaction routes ----
IsParticipant_anyone(transaction, userId) == transaction.id = transaction.id
IsParticipant(transaction, userId) ==
    ~(transaction.buyerId # userId /\ transaction.sellerId # userId)

GetTransactionsRoute == "GET /api/transactions"
GetTransactionRoute == "GET /api/transactions/:id"
PostTransactionRoute == "POST /api/transactions"
PutTransactionRoute == "PUT /api/transactions/:id"

\* ---- routes.ts: GET /api/transactions ----
GetTransactions(s) ==
    /\ IF ~isAuthenticated(s)
       THEN Reply(GetTransactionsRoute, s, 0, EmptyBody, 401, {})
       ELSE Reply(GetTransactionsRoute, s, 0, EmptyBody, 200, getTransactionsByUser(s))
    /\ UNCHANGED <<tables, seq, now, inflight>>

\* ---- routes.ts: GET /api/transactions/:id ----
GetTransaction(s, id) ==
    /\ IF ~isAuthenticated(s)
       THEN Reply(GetTransactionRoute, s, id, EmptyBody, 401, {})
       ELSE IF getTransaction(id) = {}
       THEN Reply(GetTransactionRoute, s, id, EmptyBody, 404, {})
       ELSE IF ~IsParticipant(TheRow(getTransaction(id)), s)
       THEN Reply(GetTransactionRoute, s, id, EmptyBody, 403, {})
       ELSE Reply(GetTransactionRoute, s, id, EmptyBody, 200, getTransaction(id))
    /\ UNCHANGED <<tables, seq, now, inflight>>

\* ---- routes.ts: POST /api/transactions ----
PostTransaction(s, body) ==
    /\ IF ~isAuthenticated(s)
       THEN /\ Reply(PostTransactionRoute, s, 0, body, 401, {})
            /\ UNCHANGED <<transactions, seq>>
       ELSE IF ~ValidTransactionBody(body)
       THEN /\ Reply(PostTransactionRoute, s, 0, body, 400,
                     ValidationError(body, TransactionRequired))
            /\ UNCHANGED <<transactions, seq>>
       ELSE /\ seq.transactions <= MaxTransactions
            /\ LET parsed == Strip(body, InsertTransactionFields)
                   row == NewTransaction(Spread(parsed, [buyerId |-> s]),
                                         seq.transactions)
               IN /\ transactions' = transactions \cup {row}
                  /\ Reply(PostTransactionRoute, s, 0, body, 201, {row})
            /\ seq' = [seq EXCEPT !.transactions = @ + 1]
    /\ UNCHANGED <<users, foodListings, messages, reviews, now, inflight>>

\* ---- routes.ts: PUT /api/transactions/:id, up to the participant check ----
PutTransactionCheck(s, id, body) ==
    /\ IF ~isAuthenticated(s)
       THEN Reply(PutTransactionRoute, s, id, body, 401, {}) /\ UNCHANGED inflight
       ELSE IF getTransaction(id) = {}
       THEN Reply(PutTransactionRoute, s, id, body, 404, {}) /\ UNCHANGED inflight
       ELSE IF ~IsParticipant(TheRow(getTransaction(id)), s)
       THEN Reply(PutTransactionRoute, s, id, body, 403, {}) /\ UNCHANGED inflight
       ELSE /\ Cardinality({r \in inflight : r.route = PutTransactionRoute}) < MaxInflight
            /\ inflight' = inflight \cup
                   {[route |-> PutTransactionRoute, session |-> s, id |-> id,
                     body |-> body]}
            /\ Reply(PutTransactionRoute, s, id, body, 0, {})
    /\ UNCHANGED <<tables, seq, now>>

\* ---- routes.ts: PUT /api/transactions/:id, the update and the response ----
PutTransactionApply(r) ==
    /\ r.route = PutTransactionRoute
    /\ inflight' = inflight \ {r}
    /\ IF UpdateTransactionFails(r.id, r.body)
       THEN /\ Reply(PutTransactionRoute, r.session, r.id, r.body, 500, {})
            /\ UNCHANGED transactions
       ELSE /\ transactions' = TransactionsAfterUpdate(r.id, r.body)
            /\ Reply(PutTransactionRoute, r.session, r.id, r.body, 200,
                     updateTransaction(r.id, r.body))
    /\ UNCHANGED <<users, foodListings, messages, reviews, seq, now>>

\* ---- storage.ts: DatabaseStorage, reviews ----
\* insert(reviews).values(review).returning()
NewReview(review, id) ==
    [id |-> id, reviewerId |-> review.reviewerId, receiverId |-> review.receiverId,
     listingId |-> review.listingId, rating |-> review.rating]

\* ---- shared/schema.ts: insertReviewSchema ----
InsertReviewFields == {"reviewerId", "receiverId", "listingId", "rating"}
ReviewRequired == <<"reviewerId", "receiverId", "listingId", "rating">>
ValidReviewBody(b) == InsertReviewFields \subseteq DOMAIN b

PostReviewRoute == "POST /api/reviews"

\* ---- routes.ts: POST /api/reviews ----
PostReview(s, body) ==
    /\ IF ~isAuthenticated(s)
       THEN /\ Reply(PostReviewRoute, s, 0, body, 401, {})
            /\ UNCHANGED <<reviews, seq>>
       ELSE IF ~ValidReviewBody(body)
       THEN /\ Reply(PostReviewRoute, s, 0, body, 400,
                     ValidationError(body, ReviewRequired))
            /\ UNCHANGED <<reviews, seq>>
       ELSE /\ seq.reviews <= MaxReviews
            /\ LET parsed == Strip(body, InsertReviewFields)
                   row == NewReview(Spread(parsed, [reviewerId |-> s]), seq.reviews)
               IN /\ reviews' = reviews \cup {row}
                  /\ Reply(PostReviewRoute, s, 0, body, 201, {row})
            /\ seq' = [seq EXCEPT !.reviews = @ + 1]
    /\ UNCHANGED <<users, foodListings, messages, transactions, now, inflight>>

\* ---- initial state: an empty database in which NUsers users registered ----
InitUsers ==
    {[id |-> 1, username |-> "alice", password |-> "h1", email |-> "a@x.com", bio |-> Null],
     [id |-> 2, username |-> "bob", password |-> "h2", email |-> "b@x.com", bio |-> Null],
     [id |-> 3, username |-> "carol", password |-> "h3", email |-> "c@x.com", bio |-> Null],
     [id |-> 4, username |-> "dave", password |-> "h4", email |-> "d@x.com", bio |-> Null]}

Init ==
    /\ users = {u \in InitUsers : u.id \in UserIds}
    /\ foodListings = {}
    /\ messages = {}
    /\ transactions = {}
    /\ reviews = {}
    /\ seq = [users |-> NUsers + 1, foodListings |-> 1, messages |-> 1,
              transactions |-> 1, reviews |-> 1]
    /\ now = 1
    /\ inflight = {}
    /\ ClientInit
    /\ resp = [route |-> "none", session |-> Anon, id |-> 0, body |-> EmptyBody,
               status |-> 0, result |-> {}]

\* ---- requests the model issues ----
ListingIds == 1..MaxListings
MessageIds == 1..(MaxMessages + 1)
TransactionIds == 1..MaxTransactions

ListingCreateBodies ==
    {[title |-> "soup", userId |-> 1, expiresAt |-> "friday", isAvailable |-> FALSE],
     [title |-> "soup", userId |-> 1],
     [userId |-> 1, price |-> 5]}

ListingPatchBodies ==
    {EmptyBody,
     [isAvailable |-> FALSE],
     [userId |-> 2]}

ProfileBodies ==
    {[password |-> "evil"],
     [password |-> "evil", bio |-> "hi"],
     [bio |-> "hi"],
     [username |-> "bob"],
     [email |-> "z@x.com"]}

MessageBodies ==
    {[senderId |-> 1, receiverId |-> 1, content |-> "hi"],
     [senderId |-> 1, receiverId |-> 2, content |-> "hi", isRead |-> TRUE],
     [receiverId |-> 1, content |-> "hi"]}

TransactionBodies ==
    {[buyerId |-> 1, sellerId |-> 1, listingId |-> 1, status |-> "pending"],
     [buyerId |-> 1, sellerId |-> 1, listingId |-> 1]}

TransactionPatchBodies ==
    {EmptyBody, [status |-> "completed"], [buyerId |-> 3]}

\* ---- the rows created so far, over all tables ----
RowsCreated ==
    (seq.foodListings - 1) + (seq.messages - 1) + (seq.transactions - 1)
        + (seq.reviews - 1)

\* a request that will create a row is issued only while fewer than MaxRows exist
WithinBudget(s, valid) == (isAuthenticated(s) /\ valid) => RowsCreated < MaxRows

\* the callers and the path ids of the requests issued
Callers == {Anon, 1, 2}
Targets == {1, 2}

\* ---- the listing routes ----
NextListings ==
    \/ \E s \in Callers, b \in ListingCreateBodies :
           WithinBudget(s, ValidListingBody(b)) /\ PostListing(s, b)
    \/ \E s \in Callers, id \in ListingIds, b \in ListingPatchBodies :
           PutListingCheck(s, id, b)
    \/ \E r \in inflight : PutListingApply(r)
    \/ \E s \in Callers, id \in ListingIds : DeleteListingCheck(s, id)
    \/ \E r \in inflight : DeleteListingApply(r)

SpecListings == Init /\ [][NextListings]_vars

\* ---- the user routes ----
NextUsers ==
    \/ \E id \in 1..(NUsers + 1) : GetUser(id)
    \/ \E s \in Sessions, b \in ProfileBodies : PutProfile(s, b)

SpecUsers == Init /\ [][NextUsers]_vars

\* ---- the user routes over MemStorage ----
NextMemUsers ==
    \/ \E id \in 1..(NUsers + 1) : GetUser(id)
    \/ \E s \in Sessions, b \in ProfileBodies : MemPutProfile(s, b)

SpecMemUsers == Init /\ [][NextMemUsers]_vars

\* ---- messages.tsx, listing-detail.tsx: handleSendMessage ----
\* sendMessageMutation.mutate({ receiverId, content }): the body of the POST
handleSendMessage(receiverId, content) ==
    [receiverId |-> receiverId, content |-> content]

\* ---- the message routes ----
NextMessages ==
    \/ \E s \in Sessions, b \in MessageBodies : PostMessage(s, b)
    \/ \E s \in Sessions : GetMessages(s)
    \/ \E s \in Sessions, other \in UserIds : GetConversation(s, other)
    \/ \E s \in Sessions, id \in MessageIds : MarkRead(s, id)

SpecMessages == Init /\ [][NextMessages]_vars

\* ---- two users writing to each other: send, list, mark read, open the thread ----
Correspondents == {1, 2}

ScenarioBodies ==
    {[senderId |-> r, receiverId |-> r, content |-> "Is this still available?"] :
        r \in UserIds}

NextScenario ==
    \/ \E s \in Correspondents, b \in ScenarioBodies : PostMessage(s, b)
    \/ Tick
    \/ \E s \in Correspondents : GetMessages(s)
    \/ \E s \in Correspondents, id \in MessageIds : MarkRead(s, id)
    \/ \E s \in Correspondents, other \in Correspondents : GetConversation(s, other)

SpecScenario == Init /\ [][NextScenario]_vars

\* ---- the transaction routes, with the listing they are made against ----
\* the database after user 1 posted one listing
InitTransactions ==
    /\ users = {u \in InitUsers : u.id \in UserIds}
    /\ foodListings = {NewFoodListing([title |-> "soup", userId |-> 1,
                                       expiresAt |-> "friday"], 1)}
    /\ messages = {}
    /\ transactions = {}
    /\ reviews = {}
    /\ seq = [users |-> NUsers + 1, foodListings |-> 2, messages |-> 1,
              transactions |-> 1, reviews |-> 1]
    /\ now = 1
    /\ inflight = {}
    /\ ClientInit
    /\ resp = [route |-> "none", session |-> Anon, id |-> 0, body |-> EmptyBody,
               status |-> 0, result |-> {}]

NextTransactions ==
    \/ \E s \in Sessions, b \in TransactionBodies :
           /\ (isAuthenticated(s) /\ ValidTransactionBody(b)) => seq.transactions <= MaxRows
           /\ PostTransaction(s, b)
    \/ \E s \in Sessions : GetTransactions(s)
    \/ \E s \in Sessions, id \in TransactionIds : GetTransaction(s, id)
    \/ \E s \in Sessions, id \in TransactionIds, b \in TransactionPatchBodies :
           PutTransactionCheck(s, id, b)
    \/ \E r \in inflight : PutTransactionApply(r)

SpecTransactions == InitTransactions /\ [][NextTransactions]_vars

\* ---- getConversation over every message table of up to MaxStoredMessages rows ----
\* the rows POST /api/messages can have stored: ids in creation order, created_at
\* never behind an earlier row's
ConversationPairs == {<<1, 2>>, <<2, 1>>, <<1, 3>>, <<3, 2>>, <<1, 1>>}

StoredMessages(n, f) ==
    {[id |-> i, senderId |-> f[i][1][1], receiverId |-> f[i][1][2], content |-> "hi",
      isRead |-> FALSE, createdAt |-> f[i][2]] : i \in 1..n}

InitConversation ==
    /\ users = {u \in InitUsers : u.id \in UserIds}
    /\ foodListings = {}
    /\ \E n \in 0..MaxStoredMessages :
          \E f \in [1..n -> ConversationPairs \X (1..MaxClock)] :
             /\ \A i, j \in 1..n : i < j => f[i][2] <= f[j][2]
             /\ messages = StoredMessages(n, f)
             /\ seq = [users |-> NUsers + 1, foodListings |-> 1, messages |-> n + 1,
                       transactions |-> 1, reviews |-> 1]
    /\ transactions = {}
    /\ reviews = {}
    /\ now = MaxClock
    /\ inflight = {}
    /\ ClientInit
    /\ resp = [route |-> "none", session |-> Anon, id |-> 0, body |-> EmptyBody,
               status |-> 0, result |-> {}]

NextConversation ==
    \E s \in UserIds, other \in UserIds : GetConversation(s, other)

SpecConversation == InitConversation /\ [][NextConversation]_vars

\* ---- browse and search over every listing table of up to MaxListings rows ----
\* the rows POST and PUT /api/food-listings can have stored: coordinates null
\* or on the grid, available or not
Coordinates == {NullNumber, 0, 1}

StoredListings(n, f) ==
    {[id |-> i, title |-> "soup", price |-> NullNumber, isFree |-> FALSE,
      expiresAt |-> "friday", latitude |-> f[i][1], longitude |-> f[i][2],
      userId |-> 1, isAvailable |-> f[i][3]] : i \in 1..n}

InitSearch ==
    /\ users = {u \in InitUsers : u.id \in UserIds}
    /\ \E n \in 0..MaxListings :
          \E f \in [1..n -> Coordinates \X Coordinates \X BOOLEAN] :
             /\ foodListings = StoredListings(n, f)
             /\ seq = [users |-> NUsers + 1, foodListings |-> n + 1, messages |-> 1,
                       transactions |-> 1, reviews |-> 1]
    /\ messages = {}
    /\ transactions = {}
    /\ reviews = {}
    /\ now = 1
    /\ inflight = {}
    /\ ClientInit
    /\ resp = [route |-> "none", session |-> Anon, id |-> 0, body |-> EmptyBody,
               status |-> 0, result |-> {}]

SearchQueries ==
    {EmptyBody, [lat |-> "0", lng |-> "1"], [lat |-> "x", lng |-> "0", radius |-> "69"]}
    \cup {[lat |-> a, lng |-> b, radius |-> r] :
              a \in {"0", "1"}, b \in {"0", "1"}, r \in {"0", "69", "98"}}

NextSearch == \E q \in SearchQueries : GetListings(q)

SpecSearch == InitSearch /\ [][NextSearch]_vars

\* ---- price and isFree of a listing: the create form and requests sent directly ----
PricedValues ==
    {[title |-> "soup", expiresAt |-> "friday", isFree |-> f, price |-> p] :
        f \in BOOLEAN, p \in {0, 5}}

PricePatchBodies == {[isFree |-> TRUE], [price |-> 5], [isFree |-> FALSE, price |-> 0]}

NextPricing ==
    \/ \E s \in {1, 2}, data \in PricedValues : SubmitListingForm(s, data)
    \/ \E s \in {1, 2}, data \in PricedValues :
           PostListing(s, Spread(data, [userId |-> s]))
    \/ \E s \in {1, 2}, id \in ListingIds, b \in PricePatchBodies :
           PutListingCheck(s, id, b)
    \/ \E r \in inflight : PutListingApply(r)

SpecPricing == Init /\ [][NextPricing]_vars

\* ---- storage.ts: MemStorage over the same stored rows ----
\* const foodListing = { ...listing, id, createdAt, isAvailable }: the record
\* holds the fields the caller passed and no column default
MemCreateFoodListing(listing, id) ==
    Spread(listing, [id |-> id, isAvailable |-> TRUE])

\* const updatedListing = { ...listing, ...listingData }
MemUpdateFoodListing(id, listingData) ==
    {Spread(l, listingData) : l \in getFoodListing(id)}

\* const updatedTransaction = { ...transaction, ...transactionData }
MemUpdateTransaction(id, transactionData) ==
    {Spread(t, transactionData) : t \in getTransaction(id)}

\* ---- buyers ordering one listing, next to its owner changing it ----
NextDeals ==
    \/ \E s \in {2, 3} :
           PostTransaction(s, [buyerId |-> s, sellerId |-> 1, listingId |-> 1,
                               status |-> "pending"])
    \/ \E s \in {1, 2}, id \in Targets, st \in {"completed", "cancelled"} :
           PutTransactionCheck(s, id, [status |-> st])
    \/ \E r \in inflight : PutTransactionApply(r)
    \/ \E b \in {[isAvailable |-> FALSE], [isAvailable |-> TRUE]} :
           PutListingCheck(1, 1, b)
    \/ \E r \in inflight : PutListingApply(r)

SpecDeals == InitTransactions /\ [][NextDeals]_vars

\* ---- the three partial updates: listings, users, transactions ----
NextUpdates ==
    \/ \E s \in {1} :
           /\ RowsCreated < MaxRows
           /\ PostListing(s, [title |-> "soup", userId |-> s, expiresAt |-> "friday"])
    \/ \E s \in {1}, id \in Targets, b \in {EmptyBody, [isAvailable |-> FALSE]} :
           PutListingCheck(s, id, b)
    \/ \E r \in inflight : PutListingApply(r)
    \/ \E s \in {1}, id \in Targets : DeleteListingCheck(s, id)
    \/ \E r \in inflight : DeleteListingApply(r)
    \/ \E s \in {1},
             b \in {[password |-> "evil"], [bio |-> "hi"], [username |-> "bob"]} :
           PutProfile(s, b)
    \/ \E s \in {1}, b \in TransactionBodies :
           /\ RowsCreated < MaxRows
           /\ PostTransaction(s, b)
    \/ \E s \in {1}, id \in Targets, b \in {EmptyBody, [status |-> "completed"]} :
           PutTransactionCheck(s, id, b)
    \/ \E r \in inflight : PutTransactionApply(r)

SpecUpdates == Init /\ [][NextUpdates]_vars

\* the requests that can be waiting for their storage call
UpdateRequests ==
    {[route |-> PutListingRoute, session |-> 1, id |-> id, body |-> b] :
        id \in Targets, b \in {EmptyBody, [isAvailable |-> FALSE]}}
    \cup {[route |-> DeleteListingRoute, session |-> 1, id |-> id, body |-> EmptyBody] :
        id \in Targets}
    \cup {[route |-> PutTransactionRoute, session |-> 1, id |-> id, body |-> b] :
        id \in Targets, b \in {EmptyBody, [status |-> "completed"]}}

\* an awaited storage call settles, and the handler then runs to its response
SpecUpdatesFair ==
    /\ SpecUpdates
    /\ \A r \in UpdateRequests :
          WF_vars(/\ r \in inflight
                  /\ \/ PutListingApply(r)
                     \/ DeleteListingApply(r)
                     \/ PutTransactionApply(r))

\* ---- the listing routes of an owner, next to requests on the other tables ----
OtherRowsCreated ==
    (seq.messages - 1) + (seq.transactions - 1) + (seq.reviews - 1)

AvailabilityPatchBodies == {[isAvailable |-> FALSE], [title |-> "stew"]}

NextAvailability ==
    \/ \E b \in {[title |-> "soup", userId |-> 2, expiresAt |-> "friday",
                   isAvailable |-> FALSE]} : PostListing(1, b)
    \/ \E id \in Targets, b \in AvailabilityPatchBodies : PutListingCheck(1, id, b)
    \/ \E r \in inflight : PutListingApply(r)
    \/ \E id \in Targets : DeleteListingCheck(1, id)
    \/ \E r \in inflight : DeleteListingApply(r)
    \/ \E b \in {[senderId |-> 2, receiverId |-> 1, content |-> "hi"]} :
           OtherRowsCreated < MaxRows /\ PostMessage(2, b)
    \/ MarkRead(1, 1)
    \/ \E b \in {[buyerId |-> 2, sellerId |-> 1, listingId |-> 1, status |-> "pending"]} :
           OtherRowsCreated < MaxRows /\ PostTransaction(2, b)
    \/ \E b \in {[status |-> "completed"]} : PutTransactionCheck(2, 1, b)
    \/ \E r \in inflight : PutTransactionApply(r)
    \/ \E b \in {[reviewerId |-> 2, receiverId |-> 1, listingId |-> 1, rating |-> 5]} :
           OtherRowsCreated < MaxRows /\ PostReview(2, b)

SpecAvailability == Init /\ [][NextAvailability]_vars

\* ---- every route, with at most MaxRows rows created in all ----
MessageCreateBodies ==
    {[senderId |-> 1, receiverId |-> 2, content |-> "hi"],
     [receiverId |-> 1, content |-> "hi"]}

ReviewBodies ==
    {[reviewerId |-> 1, receiverId |-> 1, listingId |-> 1, rating |-> 5],
     [reviewerId |-> 1, receiverId |-> 1, listingId |-> 1]}

\* the callers and targets of the requests issued here
Next ==
    \/ \E s \in Callers, b \in ListingCreateBodies :
           WithinBudget(s, ValidListingBody(b)) /\ PostListing(s, b)
    \/ \E s \in Callers, id \in Targets, b \in {[isAvailable |-> FALSE]} :
           PutListingCheck(s, id, b)
    \/ \E r \in inflight : PutListingApply(r)
    \/ \E s \in Callers, id \in Targets : DeleteListingCheck(s, id)
    \/ \E r \in inflight : DeleteListingApply(r)
    \/ \E id \in Targets : GetUser(id)
    \/ \E s \in Callers, b \in {[password |-> "evil", bio |-> "hi"]} : PutProfile(s, b)
    \/ \E s \in Callers, b \in MessageCreateBodies :
           WithinBudget(s, ValidMessageBody(b)) /\ PostMessage(s, b)
    \/ \E s \in Callers : GetMessages(s)
    \/ \E s \in Callers, other \in Targets : GetConversation(s, other)
    \/ \E s \in Callers, id \in Targets : MarkRead(s, id)
    \/ \E s \in Callers, b \in TransactionBodies :
           WithinBudget(s, ValidTransactionBody(b)) /\ PostTransaction(s, b)
    \/ \E s \in Callers : GetTransactions(s)
    \/ \E s \in Callers, id \in Targets : GetTransaction(s, id)
    \/ \E s \in Callers, id \in Targets, b \in {[status |-> "completed"]} :
           PutTransactionCheck(s, id, b)
    \/ \E r \in inflight : PutTransactionApply(r)
    \/ \E s \in Callers, b \in ReviewBodies :
           WithinBudget(s, ValidReviewBody(b)) /\ PostReview(s, b)

Spec == Init /\ [][Next]_vars

\* the step enters the handler of `route` (it does not resume an awaited one)
Enters(route) == resp'.route = route /\ inflight \subseteq inflight'

\* C1: a PUT or DELETE of a listing issued by an authenticated user who is
\* not the listing's owner is answered 403 and leaves the listing, and the
\* whole table, as it was.
C1_NonOwnerForbidden ==
    [][\A l \in foodListings :
          ( /\ Enters(PutListingRoute) \/ Enters(DeleteListingRoute)
            /\ resp'.id = l.id
            /\ resp'.session # Anon
            /\ l.userId # resp'.session )
          => /\ resp'.status = 403
             /\ l \in foodListings'
             /\ foodListings' = foodListings
             /\ inflight' = inflight]_vars

C1_Witness ==
    /\ resp.route = DeleteListingRoute
    /\ resp.status = 403
    /\ \E l \in foodListings : l.id = resp.id /\ l.userId # resp.session
    /\ resp.session # Anon

\* C2: whatever the body of a PUT /api/users/profile request holds, the
\* caller's row keeps its password and every other user's row is untouched.
C2_ProfileKeepsPassword ==
    [][resp'.route = PutProfileRoute =>
          \A u \in users :
             /\ \E v \in users' : v.id = u.id /\ v.password = u.password
             /\ u.id # resp'.session => u \in users']_vars

C2_Witness ==
    /\ resp.route = PutProfileRoute
    /\ resp.status = 200
    /\ "password" \in DOMAIN resp.body
    /\ \E u \in users :
          /\ u.id = resp.session
          /\ u.bio = resp.body.bio
          /\ u.password # resp.body.password

\* C3: a 200 response of GET /api/users/:id or PUT /api/users/profile carries
\* the stored user without a password field.
C3_NoPasswordInResponse ==
    (resp.route \in {GetUserRoute, PutProfileRoute} /\ resp.status = 200) =>
        /\ resp.result # {}
        /\ \A r \in resp.result :
              /\ "password" \notin DOMAIN r
              /\ \E u \in users : \A f \in DOMAIN r : r[f] = u[f]

C3_Witness ==
    /\ resp.route = PutProfileRoute
    /\ resp.status = 200
    /\ "password" \in DOMAIN resp.body
    /\ \E r \in resp.result : r.id = resp.session /\ "username" \in DOMAIN r

C5_MarkReadForbidden ==
    [][\A m \in messages :
          ( /\ resp'.route = MarkReadRoute
            /\ resp'.id = m.id
            /\ resp'.session # Anon
            /\ m.senderId # resp'.session
            /\ m.receiverId # resp'.session )
          => resp'.status = 403 /\ m \in messages']_vars

\* C8: getConversation(A,B) holds exactly the messages between A and B, each
\* once, in non-decreasing createdAt; called as (B,A) it holds the same
\* messages, and the same sequence when no two of them share a createdAt.
\* MemStorage's stable sort gives one of these sequences, the same both ways.
C8_Conversation ==
    \A a, b \in UserIds :
       /\ getConversation(a, b) # {}
       /\ MemGetConversation(a, b) \in getConversation(a, b)
       /\ MemGetConversation(a, b) = MemGetConversation(b, a)
       /\ \A q \in getConversation(a, b) :
             /\ \A m \in messages :
                   (\E i \in 1..Len(q) : q[i] = m) <=>
                       (<<m.senderId, m.receiverId>> \in {<<a, b>>, <<b, a>>})
             /\ \A i, j \in 1..Len(q) : i # j => q[i] # q[j]
             /\ \A i \in 1..Len(q) : q[i] \in messages
             /\ \A i \in 1..(Len(q) - 1) : q[i].createdAt <= q[i + 1].createdAt
             /\ \A p \in getConversation(b, a) :
                   /\ {p[i] : i \in 1..Len(p)} = {q[i] : i \in 1..Len(q)}
                   /\ (\A i, j \in 1..Len(q) :
                           i # j => q[i].createdAt # q[j].createdAt) => p = q

C8_Witness ==
    /\ resp.route = GetConversationRoute
    /\ resp.status = 200
    /\ Len(resp.result) >= 2
    /\ \E i, j \in 1..Len(resp.result) :
          /\ resp.result[i].senderId = resp.session
          /\ resp.result[j].receiverId = resp.session
          /\ resp.result[i].createdAt < resp.result[j].createdAt
    /\ \E m \in messages : \A i \in 1..Len(resp.result) : resp.result[i] # m

\* C8 as first stated: in addition getConversation(A,B) and
\* getConversation(B,A) always return the same sequence.
C8_SameSequenceBothWays ==
    \A a, b \in UserIds :
       \A q \in getConversation(a, b), p \in getConversation(b, a) : p = q

\* C9: GET /api/messages of user X returns every stored message X sent or
\* received and no other message.
C9_MessagesOfCaller ==
    (resp.route = GetMessagesRoute /\ resp.status = 200) =>
        /\ \A m \in messages :
              (m.senderId = resp.session \/ m.receiverId = resp.session)
                  => m \in resp.result
        /\ \A m \in resp.result :
              /\ m \in messages
              /\ resp.session \in {m.senderId, m.receiverId}

C9_Witness ==
    /\ resp.route = GetMessagesRoute
    /\ resp.status = 200
    /\ \E m \in resp.result :
          m.receiverId = resp.session /\ m.senderId # resp.session
    /\ \E m \in messages : m \notin resp.result

\* C10: a message is stored with isRead = false, and a message that is read
\* stays stored and read in every later state.
C10_ReadOnlyRises ==
    [][/\ \A m \in messages :
             m.isRead => \E n \in messages' : n.id = m.id /\ n.isRead
       /\ \A n \in messages' :
             (\A m \in messages : m.id # n.id) => ~n.isRead]_vars

C10_Witness ==
    /\ resp.route = PostMessageRoute
    /\ resp.status = 201
    /\ "isRead" \in DOMAIN resp.body
    /\ \E m \in messages : m.isRead
    /\ \E m \in resp.result : ~m.isRead

\* C11: marking an existing message read answers 204 and leaves the store as
\* one call leaves it (that message read, every other field and message as it
\* was); a further call succeeds again and changes nothing, in DatabaseStorage
\* and in MemStorage alike.
C11_MarkReadIdempotent ==
    [][(resp'.route = MarkReadRoute /\ resp'.session # Anon) =>
          \A m \in messages :
             m.id = resp'.id =>
                LET once == MemMarkMessageAsRead(messages, m.id)
                    twice == MemMarkMessageAsRead(once.store, m.id)
                IN /\ resp'.status = 204
                   /\ messages' = (messages \ {m}) \cup {[m EXCEPT !.isRead = TRUE]}
                   /\ m.isRead => messages' = messages
                   /\ markMessageAsRead(m.id)' # {}
                   /\ MessagesAfterRead(m.id)' = messages'
                   /\ once.found /\ twice.found
                   /\ once.store = messages'
                   /\ twice.store = once.store]_vars

C11_Witness ==
    /\ resp.route = MarkReadRoute
    /\ resp.status = 204
    /\ \E m \in messages : m.id = resp.id /\ m.isRead /\ m.receiverId = resp.session
    /\ \E m \in messages : m.id # resp.id /\ ~m.isRead

\* C12: a listing is stored with isAvailable = true whatever the create body
\* held, and an available listing stays stored and available over every step
\* but a PUT of that listing whose body sets isAvailable to false and a DELETE
\* of that listing; requests on other listings, messages, transactions and
\* reviews leave it so.
C12_AvailableUntilChanged ==
    [][/\ \A n \in foodListings' :
             (\A l \in foodListings : l.id # n.id) => n.isAvailable = TRUE
       /\ \A l \in foodListings :
             l.isAvailable = TRUE =>
                \/ \E n \in foodListings' : n.id = l.id /\ n.isAvailable = TRUE
                \/ /\ resp'.route = PutListingRoute
                   /\ resp'.id = l.id
                   /\ resp'.status = 200
                   /\ "isAvailable" \in DOMAIN resp'.body
                   /\ resp'.body.isAvailable = FALSE
                   /\ \E n \in foodListings' : n.id = l.id /\ n.isAvailable = FALSE
                \/ /\ resp'.route = DeleteListingRoute
                   /\ resp'.id = l.id
                   /\ resp'.status = 204
                   /\ \A n \in foodListings' : n.id # l.id]_vars

C12_Witness ==
    /\ resp.route = PutTransactionRoute
    /\ resp.status = 200
    /\ \E t \in transactions : t.status = "completed"
    /\ \E l, k \in foodListings :
          /\ l.id = 1 /\ l.isAvailable = TRUE
          /\ k.id = 2 /\ k.isAvailable = FALSE

\* C13: no response of GET /api/food-listings, with or without lat, lng and
\* radius, holds a listing whose isAvailable is false.
C13_UnavailableHidden ==
    (resp.route = GetListingsRoute /\ resp.status = 200) =>
        \A l \in resp.result : l.isAvailable = TRUE

\* C14: with lat, lng and radius, GET /api/food-listings returns exactly the
\* stored listings that are available, have a latitude and a longitude, and
\* lie within the radius of the query point.
C14_ExactlyWithinRadius ==
    ( /\ resp.route = GetListingsRoute
      /\ resp.status = 200
      /\ "radius" \in DOMAIN resp.body ) =>
        resp.result =
            {l \in foodListings :
                /\ l.isAvailable = TRUE
                /\ l.latitude # NullNumber
                /\ l.longitude # NullNumber
                /\ calculateDistance(parseFloat(resp.body.lat), parseFloat(resp.body.lng),
                                     l.latitude, l.longitude)
                      <= parseFloat(resp.body.radius)}

\* C15: deleteFoodListing of an id that is not stored returns false and leaves
\* the table as it is; of a stored id it returns true and removes that one
\* listing.  DELETE /api/food-listings/:id for an id that is not stored is
\* answered 404 and changes nothing; a 204 goes with deleteFoodListing applied.
C15_DeleteSignalsPresence ==
    [][/\ \A id \in ListingIds :
             /\ getFoodListing(id) = {} =>
                   ~deleteFoodListingReturns(id) /\ deleteFoodListing(id) = foodListings
             /\ \A l \in getFoodListing(id) :
                   /\ deleteFoodListingReturns(id)
                   /\ deleteFoodListing(id) = foodListings \ {l}
       /\ ( /\ Enters(DeleteListingRoute)
            /\ resp'.session # Anon
            /\ getFoodListing(resp'.id) = {} )
          => resp'.status = 404 /\ foodListings' = foodListings /\ inflight' = inflight
       /\ (resp'.route = DeleteListingRoute /\ resp'.status = 204)
          => foodListings' = deleteFoodListing(resp'.id)]_vars

C15_Witness ==
    /\ resp.route = DeleteListingRoute
    /\ resp.status = 404
    /\ resp.session # Anon
    /\ getFoodListing(resp.id) = {}
    /\ foodListings # {}

\* C16: a create request of a logged-in user whose body lacks a field the
\* insert schema requires is answered 400 with the message of the first
\* violation in schema order, and no table and no sequence changes.
C16_InvalidBodyRejected ==
    [][/\ ( /\ resp'.route = PostListingRoute
            /\ resp'.session # Anon
            /\ ~({"title", "userId", "expiresAt"} \subseteq DOMAIN resp'.body) )
          => /\ resp'.status = 400
             /\ resp'.result =
                   {[message |-> IF {"title", "userId"} \subseteq DOMAIN resp'.body
                                 THEN "Expiration date is required"
                                 ELSE "Required"]}
             /\ UNCHANGED <<tables, seq>>
       /\ ( /\ resp'.session # Anon
            /\ \/ /\ resp'.route = PostMessageRoute
                  /\ ~({"senderId", "receiverId", "content"} \subseteq DOMAIN resp'.body)
               \/ /\ resp'.route = PostTransactionRoute
                  /\ ~({"buyerId", "sellerId", "listingId", "status"}
                          \subseteq DOMAIN resp'.body)
               \/ /\ resp'.route = PostReviewRoute
                  /\ ~({"reviewerId", "receiverId", "listingId", "rating"}
                          \subseteq DOMAIN resp'.body) )
          => /\ resp'.status = 400
             /\ resp'.result = {[message |-> "Required"]}
             /\ UNCHANGED <<tables, seq>>]_vars

C16_Witness ==
    /\ resp.route = PostListingRoute
    /\ resp.status = 400
    /\ resp.result = {[message |-> "Expiration date is required"]}
    /\ "title" \in DOMAIN resp.body
    /\ foodListings # {}

\* C17: no two stored users share a username and no two share an email.
C17_UniqueUsers ==
    \A u, v \in users :
       u.id # v.id => u.username # v.username /\ u.email # v.email

\* C19: a message U2 sends to U1 is stored unread and stays unread until a
\* mark-read request names it; while it is unread U1's GET /api/messages
\* includes it with isRead = false; the mark-read request leaves it read, and
\* from then on GET /api/messages/:U2 issued by U1 returns it with
\* isRead = true, as the whole answer when it is the only message between them.
C19_SendListReadOpen ==
    [][/\ (resp'.route = PostMessageRoute /\ resp'.status = 201) =>
             \E m \in messages' \ messages :
                /\ messages' = messages \cup {m}
                /\ resp'.result = {m}
                /\ m.senderId = resp'.session
                /\ m.receiverId = resp'.body.receiverId
                /\ ~m.isRead
       /\ \A m \in messages :
             IF resp'.route = MarkReadRoute /\ resp'.status = 204 /\ resp'.id = m.id
             THEN [m EXCEPT !.isRead = TRUE] \in messages'
             ELSE m \in messages'
       /\ (resp'.route = GetMessagesRoute /\ resp'.status = 200) =>
             \A m \in messages' :
                m.receiverId = resp'.session => m \in resp'.result
       /\ (resp'.route = GetConversationRoute /\ resp'.status = 200) =>
             LET between == {m \in messages' :
                                {m.senderId, m.receiverId} = {resp'.session, resp'.id}}
             IN /\ {resp'.result[i] : i \in 1..Len(resp'.result)} = between
                /\ \A m \in between :
                      Cardinality(between) = 1 => resp'.result = <<m>>]_vars

C19_Witness ==
    /\ resp.route = GetConversationRoute
    /\ resp.status = 200
    /\ resp.session # resp.id
    /\ Len(resp.result) = 1
    /\ resp.result[1].senderId = resp.id
    /\ resp.result[1].receiverId = resp.session
    /\ resp.result[1].isRead
    /\ now > resp.result[1].createdAt
    /\ \E m \in messages : m \notin {resp.result[1]}

\* C20: a partial update of a stored listing, user or transaction answers with
\* the merged record (patch fields from the patch, the others as they were)
\* and stores it in place of the old one, every other record unchanged; for an
\* id that is not stored it gives the not-found signal and changes nothing.
C20_PartialUpdateMerges ==
    [][/\ (resp'.route = PutListingRoute
            /\ Cardinality(inflight') < Cardinality(inflight)) =>
             /\ \A l \in foodListings :
                   l.id = resp'.id =>
                      /\ resp'.result = {Spread(l, resp'.body)}
                      /\ foodListings' = (foodListings \ {l}) \cup resp'.result
             /\ (\A l \in foodListings : l.id # resp'.id) =>
                   resp'.result = {} /\ foodListings' = foodListings
       /\ (resp'.route = PutTransactionRoute
            /\ Cardinality(inflight') < Cardinality(inflight)) =>
             /\ \A t \in transactions :
                   t.id = resp'.id =>
                      /\ resp'.result = {Spread(t, resp'.body)}
                      /\ transactions' = (transactions \ {t}) \cup resp'.result
             /\ (\A t \in transactions : t.id # resp'.id) =>
                   resp'.result = {} /\ transactions' = transactions
       /\ (resp'.route = PutProfileRoute /\ resp'.session # Anon) =>
             \A u \in users :
                u.id = resp'.session =>
                   LET merged == Spread(u, UpdatableFields(resp'.body))
                   IN /\ resp'.result = {WithoutPassword(merged)}
                      /\ users' = (users \ {u}) \cup {merged}]_vars

\* C21: on equal stores every storage call gives the same result and leaves
\* the same records in DatabaseStorage as in MemStorage: creating a listing,
\* updating a listing, a user or a transaction, each answered by the routes.
C21_Interchangeable ==
    [][/\ (resp'.route = PostListingRoute /\ resp'.status \notin {400, 401}) =>
             LET listing == Spread(Strip(resp'.body, InsertListingFields),
                                   [userId |-> resp'.session])
                 row == MemCreateFoodListing(listing, seq.foodListings)
             IN /\ resp'.status = 201
                /\ resp'.result = {row}
                /\ foodListings' = foodListings \cup {row}
       /\ (resp'.route = PutListingRoute
            /\ Cardinality(inflight') < Cardinality(inflight)) =>
             /\ resp'.status = 200
             /\ resp'.result = MemUpdateFoodListing(resp'.id, resp'.body)
             /\ foodListings' = {l \in foodListings : l.id # resp'.id}
                                    \cup MemUpdateFoodListing(resp'.id, resp'.body)
       /\ (resp'.route = PutTransactionRoute
            /\ Cardinality(inflight') < Cardinality(inflight)) =>
             /\ resp'.status = 200
             /\ resp'.result = MemUpdateTransaction(resp'.id, resp'.body)
             /\ transactions' = {t \in transactions : t.id # resp'.id}
                                    \cup MemUpdateTransaction(resp'.id, resp'.body)
       /\ (resp'.route = PutProfileRoute /\ resp'.session # Anon) =>
             LET userData == UpdatableFields(resp'.body)
             IN /\ resp'.status = 200
                /\ resp'.result =
                      {WithoutPassword(u) : u \in MemUpdateUser(resp'.session, userData)}
                /\ users' = MemUsersAfterUpdate(resp'.session, userData)]_vars

C23_TransactionsLeaveListings ==
    [][/\ resp'.route \in {PostTransactionRoute, PutTransactionRoute} =>
             foodListings' = foodListings
       /\ ( /\ resp'.route = PostTransactionRoute
            /\ resp'.session # Anon
            /\ {"buyerId", "sellerId", "listingId", "status"} \subseteq DOMAIN resp'.body )
          => /\ resp'.status = 201
             /\ transactions' = transactions \cup resp'.result
             /\ \A t \in resp'.result : t \notin transactions
       /\ resp'.route = PutTransactionRoute =>
             \A t \in transactions : t.id # resp'.id => t \in transactions']_vars

C23_Witness ==
    /\ resp.route = PutTransactionRoute
    /\ resp.status = 200
    /\ \E t, u \in transactions :
          /\ t.buyerId # u.buyerId
          /\ t.listingId = u.listingId
          /\ t.id = resp.id
          /\ t.status = "completed"
          /\ \E l \in foodListings : l.id = t.listingId /\ l.isAvailable = TRUE

\* C24: when a parked PUT /api/food-listings/:id is applied, a 200 carries the
\* merged listing, and if the listing is gone by then (its owner's DELETE was
\* applied in between) the answer is 404, unless the storage call failed.
C24_PutAfterDelete ==
    [][LET req == [route |-> resp'.route, session |-> resp'.session,
                   id |-> resp'.id, body |-> resp'.body]
       IN ( /\ resp'.route = PutListingRoute
            /\ req \in inflight \ inflight'
            /\ resp'.status # 500 )
          => /\ resp'.status = 200 =>
                   \E l \in foodListings :
                      l.id = resp'.id /\ resp'.result = {Spread(l, resp'.body)}
             /\ (\A l \in foodListings : l.id # resp'.id) => resp'.status = 404]_vars

\* C25: over every step of PUT /api/food-listings/:id, whatever its body, each
\* stored listing is still stored under its id and owned by the same user.
C25_IdAndOwnerFixed ==
    [][resp'.route = PutListingRoute =>
          \A l \in foodListings :
             \E n \in foodListings' : n.id = l.id /\ n.userId = l.userId]_vars

\* C26: every stored transaction names a stored listing, has that listing's
\* owner as its seller, and has a buyer other than its seller.
C26_TransactionReferences ==
    \A t \in transactions :
       \E l \in foodListings :
          /\ l.id = t.listingId
          /\ t.sellerId = l.userId
          /\ t.buyerId # t.sellerId

\* C27: the body the pages send for a message of a logged-in user (receiverId
\* and content) is answered 201 with the stored message, sent by the caller.
C27_ClientMessageAccepted ==
    ( /\ resp.route = PostMessageRoute
      /\ resp.session # Anon
      /\ \E u \in UserIds : resp.body = handleSendMessage(u, "hi") )
    => /\ resp.status = 201
       /\ \E m \in messages : resp.result = {m} /\ m.senderId = resp.session

\* C29: in both storages the search by location returns every available
\* listing within the radius whose latitude and longitude are not null, also
\* when one of them is exactly 0.
C29_ZeroIsACoordinate ==
    \A lat \in {0, 1}, lng \in {0, 1}, radiusMiles \in {0, 69, 98} :
       \A l \in foodListings :
          ( /\ l.isAvailable = TRUE
            /\ l.latitude # NullNumber
            /\ l.longitude # NullNumber
            /\ l.latitude = 0 \/ l.longitude = 0
            /\ calculateDistance(lat, lng, l.latitude, l.longitude) <= radiusMiles )
          => /\ l \in getFoodListingsByLocation(lat, lng, radiusMiles)
             /\ l \in MemGetFoodListingsByLocation(lat, lng, radiusMiles)

\* C18: every stored listing with isFree = true has price 0.
C18_FreeImpliesZero ==
    \A l \in foodListings : l.isFree = TRUE => l.price = 0

\* the routes registered behind isAuthenticated
AuthRoutes ==
    {PostListingRoute, PutListingRoute, DeleteListingRoute, GetMessagesRoute,
     GetConversationRoute, PostMessageRoute, MarkReadRoute, GetTransactionsRoute,
     GetTransactionRoute, PostTransactionRoute, PutTransactionRoute,
     PostReviewRoute, PutProfileRoute}

\* C6: a 201 response of a create route carries the stored row, and its
\* identity column (userId, senderId, buyerId, reviewerId) is the caller's id,
\* whatever the body carried there.
C6_IdentityIsCaller ==
    resp.status = 201 =>
        /\ resp.result # {}
        /\ resp.route = PostListingRoute =>
              \A r \in resp.result : r \in foodListings /\ r.userId = resp.session
        /\ resp.route = PostMessageRoute =>
              \A r \in resp.result : r \in messages /\ r.senderId = resp.session
        /\ resp.route = PostTransactionRoute =>
              \A r \in resp.result : r \in transactions /\ r.buyerId = resp.session
        /\ resp.route = PostReviewRoute =>
              \A r \in resp.result : r \in reviews /\ r.reviewerId = resp.session

C6_Witness ==
    /\ resp.status = 201
    /\ resp.route = PostTransactionRoute
    /\ resp.body.buyerId # resp.session
    /\ \E r \in transactions : r \in resp.result /\ r.buyerId = resp.session

\* C7: on a route behind isAuthenticated, a request without a session is
\* answered 401 and no row, sequence or awaited request changes, also when
\* its body is invalid or its target does not exist.
C7_Unauthenticated401 ==
    [][(resp'.route \in AuthRoutes /\ resp'.session = Anon) =>
          /\ resp'.status = 401
          /\ UNCHANGED <<tables, seq, inflight>>]_vars

C7_Witness ==
    /\ resp.status = 401
    /\ resp.route = PostMessageRoute
    /\ ~ValidMessageBody(resp.body)
    /\ messages # {}

\* ---- client/src/pages/messages.tsx: the conversation is opened ----
\* the conversation query has delivered its data for the selected partner; the
\* effect on [selectedUserId, conversation] calls markAsReadMutation.mutate for
\* every message of it that is unread and was sent by the selected partner
OpenConversation ==
    /\ resp.route = GetConversationRoute
    /\ resp.status = 200
    /\ client.requested = {}
    /\ client' = [client EXCEPT
                    !.user = resp.session,
                    !.selectedUserId = resp.id,
                    !.requested = {resp.result[i].id : i \in
                                     {j \in 1..Len(resp.result) :
                                        /\ ~resp.result[j].isRead
                                        /\ resp.result[j].senderId = resp.id}},
                    !.invalidated = FALSE,
                    !.failed = FALSE]
    /\ UNCHANGED <<tables, seq, now, inflight, resp>>

\* markAsReadMutation: mutationFn awaits apiRequest and then res.json(); the
\* server's res.sendStatus(204) carries no body, so res.json() rejects and
\* onSuccess (the two invalidateQueries calls) does not run. For an error
\* status apiRequest either throws or hands back the response, whose JSON body
\* parses.
MutationSettled ==
    /\ resp.route = MarkReadRoute
    /\ resp.session = client.user
    /\ resp.id \in client.requested
    /\ \E outcome \in IF resp.status = 204 THEN {"rejected"}
                      ELSE {"rejected", "resolved"} :
          client' = [client EXCEPT
                       !.requested = @ \ {resp.id},
                       !.invalidated = @ \/ outcome = "resolved",
                       !.failed = @ \/ outcome = "rejected"]
    /\ UNCHANGED <<tables, seq, now, inflight, resp>>

\* two users write to each other; user 1 has the messages page open. A response
\* to a mark-read request reaches the page before the server is asked again.
NextPage ==
    \/ \E s \in Correspondents, b \in ScenarioBodies :
          /\ ~(resp.route = MarkReadRoute /\ resp.id \in client.requested)
          /\ PostMessage(s, b)
    \/ \E other \in Correspondents :
          /\ ~(resp.route = MarkReadRoute /\ resp.id \in client.requested)
          /\ GetConversation(1, other)
    \/ OpenConversation
    \/ \E id \in client.requested :
          /\ ~(resp.route = MarkReadRoute /\ resp.id \in client.requested)
          /\ MarkRead(client.user, id)
    \/ MutationSettled

SpecPage == Init /\ [][NextPage]_vars

\* C28: opening a conversation issues a mark-read request for exactly the
\* unread messages sent by the selected partner, never for the user's own
\* messages, and whenever the server answers such a request with 204 the
\* mutation succeeds and the message queries are invalidated.
C28_MarkReadInvalidates ==
    [][/\ (client.requested = {} /\ client'.requested # {})
          => /\ client'.requested =
                  {m.id : m \in
                     {r \in messages : /\ r.senderId = client'.selectedUserId
                                       /\ r.receiverId = client'.user
                                       /\ ~r.isRead}}
             /\ \A m \in messages :
                   m.senderId = client'.user /\ m.receiverId # client'.user
                      => m.id \notin client'.requested
       /\ ( /\ resp.route = MarkReadRoute
            /\ resp.status = 204
            /\ resp.id \in client.requested
            /\ resp.id \notin client'.requested )
          => /\ client'.invalidated
             /\ ~client'.failed]_vars


\* ---- SplashPage and client/src/components/splash-screen.tsx ----
\* handleSplashComplete: localStorage.setItem('hasSeenSplash', 'true'),
\* setShowSplash(false), setLocation('/home'). The render that follows takes
\* SplashScreen off the page, and the cleanup of its effect clears the timeout
\* and the interval before another event is handled.
handleSplashComplete_keepsTimer(c) ==
    [c EXCEPT !.hasSeenSplash = TRUE, !.showSplash = FALSE,
              !.location = "/home", !.interval = FALSE,
              !.completions = @ + 1]

handleSplashComplete(c) ==
    [c EXCEPT !.hasSeenSplash = TRUE, !.showSplash = FALSE,
              !.location = "/home", !.timer = FALSE, !.interval = FALSE,
              !.completions = @ + 1]

\* the router renders SplashPage at "/": useState(true) for showSplash and
\* useState(0) for progress; the effects of the mount have not run yet
VisitRoot ==
    /\ client.location # "/"
    /\ client' = [client EXCEPT !.location = "/", !.showSplash = TRUE,
                                !.mounted = FALSE, !.progress = 0,
                                !.timer = FALSE, !.interval = FALSE,
                                !.elapsed = 0, !.ticks = 0, !.completions = 0]
    /\ UNCHANGED <<tables, seq, now, inflight, resp>>

\* the effects of the mount: SplashScreen arms setTimeout(onComplete, 3000) and
\* setInterval(..., 50); SplashPage reads localStorage and, when hasSeenSplash
\* is recorded, hides the splash and navigates, which unmounts SplashScreen and
\* clears both timers again
SplashEffects ==
    /\ client.location = "/"
    /\ ~client.mounted
    /\ client' = IF client.hasSeenSplash
                 THEN [client EXCEPT !.mounted = TRUE, !.showSplash = FALSE,
                                     !.location = "/home"]
                 ELSE [client EXCEPT !.mounted = TRUE, !.timer = TRUE,
                                     !.interval = TRUE]
    /\ UNCHANGED <<tables, seq, now, inflight, resp>>

\* 50 ms pass while the timeout is armed; 60 of them make its 3000 ms
AdvanceTime ==
    /\ client.timer
    /\ client.elapsed < 60
    /\ client' = [client EXCEPT !.elapsed = @ + 1]
    /\ UNCHANGED <<tables, seq, now, inflight, resp>>

\* the interval callback, at most one for every 50 ms passed:
\* setProgress(prev => prev >= 100 ? (clearInterval(interval), 100) : prev + 2)
IntervalTick ==
    /\ client.interval
    /\ client.ticks < client.elapsed
    /\ client' = [client EXCEPT
                    !.ticks = @ + 1,
                    !.progress = IF @ >= 100 THEN 100 ELSE @ + 2,
                    !.interval = ~(client.progress >= 100)]
    /\ UNCHANGED <<tables, seq, now, inflight, resp>>

\* the timeout callback, not before its 3000 ms have passed: onComplete()
TimerFires ==
    /\ client.timer
    /\ client.elapsed >= 60
    /\ client' = handleSplashComplete([client EXCEPT !.timer = FALSE])
    /\ UNCHANGED <<tables, seq, now, inflight, resp>>

\* the Skip button of the splash screen that is on the page: onClick={onComplete}
SkipClicked ==
    /\ client.location = "/"
    /\ client.showSplash
    /\ client.mounted
    /\ client' = handleSplashComplete(client)
    /\ UNCHANGED <<tables, seq, now, inflight, resp>>

NextSplash ==
    \/ VisitRoot
    \/ SplashEffects
    \/ AdvanceTime
    \/ IntervalTick
    \/ TimerFires
    \/ SkipClicked

\* React runs the effects of a mount, time passes, and a timeout that is due
\* and still armed runs its callback; nobody has to press Skip or come back
SpecSplash ==
    /\ Init
    /\ [][NextSplash]_vars
    /\ WF_vars(SplashEffects)
    /\ WF_vars(AdvanceTime)
    /\ WF_vars(TimerFires)

\* C30: a first visit to "/" shows the splash screen until it completes, by
\* the 3-second timer or by Skip, whichever comes first; completion runs once
\* per visit, records hasSeenSplash and navigates to "/home"; on a later visit
\* with hasSeenSplash recorded the page navigates to "/home" and the splash
\* does not stay shown; the progress value stays within 0..100.
C30_SplashFlow ==
    /\ [](client.progress \in 0..100)
    /\ [](client.completions <= 1)
    /\ []((client.location = "/" /\ ~client.hasSeenSplash) => client.showSplash)
    /\ []((client.location = "/" /\ client.hasSeenSplash) => ~client.mounted)
    /\ [][client'.completions > client.completions
            => /\ client.location = "/" /\ client.showSplash
               /\ client.elapsed <= 60
               /\ client'.hasSeenSplash
               /\ client'.location = "/home"
               /\ ~client'.showSplash
               /\ ~client'.timer /\ ~client'.interval]_vars
    /\ [][(client.location = "/" /\ client'.location # "/")
            => client'.location = "/home" /\ client'.hasSeenSplash]_vars
    /\ (client.location = "/")
          ~> (client.location = "/home" /\ client.hasSeenSplash /\ ~client.showSplash)

\* the timer completed a first visit after its 3000 ms, the bar being full
C30_Witness ==
    /\ client.location = "/home"
    /\ client.hasSeenSplash
    /\ ~client.showSplash
    /\ client.completions = 1
    /\ client.elapsed = 60
    /\ client.progress = 100

====
